---- MODULE Spec2Model ----
(***************************************************************************)
(* ParkHub documentation screenshots: scripts/generate_screenshots.py.     *)
(* The script creates the output directory, binds six font handles, then   *)
(* runs nine composers; each composer builds a canvas from literal draw    *)
(* operations and saves it as a PNG file.                                  *)
(*                                                                         *)
(* A canvas is modelled by its size, its background and the sequence of    *)
(* draw operations applied to it; a PNG file by the canvas it encodes.     *)
(*                                                                         *)
(* Spec is the script run as __main__, possibly again on the directory an  *)
(* earlier run left; every font load and every save may raise.             *)
(* SpecWidgets is the module imported and its two widgets called with      *)
(* arbitrary arguments.                                                    *)
(***************************************************************************)
EXTENDS Integers, Sequences, FiniteSets, TLC

VARIABLES
    pc,        \* position of the running script
    run,       \* number of the current process (1 = first invocation)
    dirExists, \* whether OUT_DIR exists on disk
    files,     \* OUT_DIR: file name -> content
    fonts,     \* the six module-level font names
    out,       \* console lines printed by the current process
    started,   \* composers entered by the current process, in order
    failed,    \* name of the step whose exception ended the process, or ""
    saved,     \* file names the current process saved, in order
    prevSaved, \* file names the previous process saved
    prevFonts, \* the font names as the previous process bound them
    dir0,      \* whether OUT_DIR existed before the first process
    fontFailed,\* whether a font load raised in the current process
    widget,    \* widget harness: the canvas the widgets draw on
    calls,     \* widget harness: the widget calls made, in order
    cpc,       \* composers as units of work: the phase of each composer
    canvases,  \* composers as units of work: canvas variable -> canvas
    overlap,   \* composers as units of work: a composer began out of main's order
    bfn,       \* capture script: the function being executed
    bip,       \* capture script: the next step of that function
    live,      \* capture script: number of browser drivers running
    launched,  \* capture script: the functions that started a driver, in order
    blog,      \* capture script: navigations and screenshots performed, in order
    exitcode,  \* capture script: exit status, -1 while running
    cause,     \* capture script: the kind of step whose exception is propagating, or ""
    missed     \* capture script: an expected page element was not located

vars == <<pc, run, dirExists, files, fonts, out, started, failed, saved,
          prevSaved, prevFonts, dir0, fontFailed, widget, calls, cpc, canvases, overlap,
          bfn, bip, live, launched, blog, exitcode, cause, missed>>

----------------------------------------------------------------------------
(* Bounds *)

MaxRuns == 2
MaxCalls == 2

----------------------------------------------------------------------------
(* Palette, generate_screenshots.py lines 7-19 *)

W == 800
H == 500
BG == <<15, 23, 42>>
BLUE == <<59, 130, 246>>
DARK_BLUE == <<29, 78, 216>>
WHITE == <<255, 255, 255>>
GRAY == <<148, 163, 184>>
LIGHT_GRAY == <<203, 213, 225>>
CARD_BG == <<30, 41, 59>>
CARD_BORDER == <<51, 65, 85>>
GREEN == <<34, 197, 94>>
RED == <<239, 68, 68>>
YELLOW == <<250, 204, 21>>
PURPLE == <<168, 85, 247>>

\* Python's None for an optional colour or an optional string argument.
None == <<>>
\* An optional string that is present.
Some(s) == <<s>>

----------------------------------------------------------------------------
(* Fonts, lines 24-33 *)

Bold == "DejaVuSans-Bold.ttf"
Regular == "DejaVuSans.ttf"
Unbound == [file |-> "", size |-> 0]
\* ImageFont.load_default()
DefaultFont == [file |-> "default", size |-> 0]
\* ImageFont.truetype(file, size) when it succeeds
truetype(file, size) == [file |-> file, size |-> size]

\* The six loads of the try block, in program order.
FontLoads == <<
    [name |-> "font_lg",    file |-> Bold,    size |-> 28],
    [name |-> "font_md",    file |-> Regular, size |-> 18],
    [name |-> "font_sm",    file |-> Regular, size |-> 14],
    [name |-> "font_xs",    file |-> Regular, size |-> 11],
    [name |-> "font_bold",  file |-> Bold,    size |-> 18],
    [name |-> "font_title", file |-> Bold,    size |-> 22] >>

FontNames == {FontLoads[i].name : i \in 1..Len(FontLoads)}

NoFonts == [n \in FontNames |-> Unbound]

\* The except branch: font_lg = load_default(); the other five = font_lg.
\* Variant: the except branch binds only the names still unbound.
FallbackPartial(F) == [n \in FontNames |-> IF F[n] = Unbound THEN DefaultFont ELSE F[n]]
Fallback(F) == [n \in FontNames |-> DefaultFont]

----------------------------------------------------------------------------
(* Canvas and drawing primitives *)

\* Image.new('RGB', (w, h), bg)
NewImage(w, h, bg) == [size |-> <<w, h>>, bg |-> bg, ops |-> <<>>]

Shape(kind, xy, fill, radius, outline) ==
    [op |-> kind, xy |-> xy, fill |-> fill, radius |-> radius,
     outline |-> outline, text |-> "", font |-> Unbound]

\* draw.rounded_rectangle(xy, radius=radius, fill=fill, outline=outline)
rounded_rect(xy, fill, radius, outline) == Shape("rounded_rectangle", xy, fill, radius, outline)
\* draw.rectangle(xy, fill=fill)
rectangle(xy, fill) == Shape("rectangle", xy, fill, 0, None)
\* draw.ellipse(xy, fill=fill)
ellipse(xy, fill) == Shape("ellipse", xy, fill, 0, None)
\* draw.line(xy, fill=fill)
line(xy, fill) == Shape("line", xy, fill, 0, None)
\* draw.text(xy, s, fill=fill, font=font)
text(xy, s, fill, font) ==
    [op |-> "text", xy |-> xy, fill |-> fill, radius |-> 0,
     outline |-> None, text |-> s, font |-> font]

Draw(img, ops) == [img EXCEPT !.ops = @ \o ops]

RECURSIVE Flatten(_)
Flatten(ss) == IF ss = <<>> THEN <<>> ELSE Head(ss) \o Flatten(Tail(ss))

\* The loop "for i, item in enumerate(items)": the body's operations, in order.
ForEach(n, Body(_)) == Flatten([i \in 1..n |-> Body(i - 1)])

\* Decimal formatting of small naturals: str(n) and f"{n:02d}".
Digit(d) == <<"0", "1", "2", "3", "4", "5", "6", "7", "8", "9">>[d + 1]
Str(n) == IF n < 10 THEN Digit(n) ELSE Digit(n \div 10) \o Digit(n % 10)
Fmt02(n) == Digit(n \div 10) \o Digit(n % 10)

----------------------------------------------------------------------------
(* Shared widgets, lines 41-65 *)

NavItems == <<"Dashboard", "Buchungen", "Profil", "Admin">>

\* Variant: the two colours swapped.
navbar_color_mut(item, active) == IF Some(item) = active THEN GRAY ELSE BLUE
navbar_color(item, active) == IF Some(item) = active THEN BLUE ELSE GRAY

draw_navbar(F, title, active) ==
    << rounded_rect(<<0, 0, W, 56>>, CARD_BG, 12, None),
       rounded_rect(<<16, 10, 52, 46>>, BLUE, 8, None),
       text(<<22, 14>>, "PH", WHITE, F.font_bold),
       text(<<62, 16>>, title, WHITE, F.font_bold) >>
    \o ForEach(Len(NavItems), LAMBDA i :
         << text(<<300 + 100 * i, 18>>, NavItems[i + 1],
                 navbar_color(NavItems[i + 1], active), F.font_sm) >>)

SideItems == << <<"Dashboard", 80>>, <<"Buchungen", 115>>, <<"Fahrzeuge", 150>>,
                <<"Homeoffice", 185>>, <<"Profil", 220>>, <<"Admin", 270>> >>

sidebar_entry(F, label, y, active) ==
    IF Some(label) = active
    THEN << rounded_rect(<<8, y - 4, 192, y + 26>>, BLUE, 8, None),
            text(<<20, y>>, label, WHITE, F.font_sm) >>
    ELSE << text(<<20, y>>, label, GRAY, F.font_sm) >>

draw_sidebar(F, active) ==
    << rounded_rect(<<0, 56, 200, H>>, <<20, 30, 48>>, 12, None) >>
    \o ForEach(Len(SideItems), LAMBDA i :
         sidebar_entry(F, SideItems[i + 1][1], SideItems[i + 1][2], active))

----------------------------------------------------------------------------
(* create_welcome, lines 68-88 *)

langs == << <<"Deutsch", "German">>, <<"English", "English">>, <<"Espanol", "Spanish">>,
            <<"Francais", "French">>, <<"Portugues", "Portuguese">>,
            <<"Turkce", "Turkish">>, <<"Hindi", "Hindi">>, <<"Japanisch", "Japanese">>,
            <<"Chinesisch", "Chinese">>, <<"Arabisch", "Arabic">> >>

welcome_cols == 5
welcome_cw == 130
welcome_ch == 70
welcome_gap == 12

\* Variant: the gaps left out of the grid width.
welcome_sx_mut == (W - welcome_cols * welcome_cw) \div 2
welcome_sx == (W - welcome_cols * welcome_cw - (welcome_cols - 1) * welcome_gap) \div 2

welcome_card(F, i) ==
    LET r == i \div welcome_cols
        c == i % welcome_cols
        x == welcome_sx + c * (welcome_cw + welcome_gap)
        y == 160 + r * (welcome_ch + welcome_gap)
    IN << rounded_rect(<<x, y, x + welcome_cw, y + welcome_ch>>, CARD_BG, 10, CARD_BORDER),
          text(<<x + 12, y + 14>>, langs[i + 1][1], WHITE, F.font_sm),
          text(<<x + 12, y + 36>>, langs[i + 1][2], GRAY, F.font_xs) >>

\* Variant: the number of the run drawn into the title.
welcome_img_mut(F) ==
    Draw(NewImage(W, H, BG),
      << text(<<W \div 2 - 100, 60>>, "Willkommen " \o Str(run), BLUE, F.font_lg) >>)
welcome_img(F) ==
    Draw(NewImage(W, H, BG),
      << text(<<W \div 2 - 100, 60>>, "Willkommen", BLUE, F.font_lg),
         text(<<W \div 2 - 140, 110>>, "Sprache wahlen / Select your language", GRAY, F.font_sm) >>
      \o ForEach(Len(langs), LAMBDA i : welcome_card(F, i))
      \o << text(<<W \div 2 - 80, 390>>, "Barrierefreiheit", GRAY, F.font_xs),
            text(<<W \div 2 - 100, 460>>, "Open Source  |  MIT License  |  GitHub",
                 <<71, 85, 105>>, F.font_xs) >>)

----------------------------------------------------------------------------
(* create_login, lines 91-119 *)

login_img(F) ==
    Draw(NewImage(W, H, BG),
      << rectangle(<<0, 0, 380, H>>, BLUE),
         text(<<40, 60>>, "PH", WHITE, F.font_lg),
         text(<<90, 68>>, "ParkHub", WHITE, F.font_bold),
         text(<<40, 140>>, "Intelligentes", WHITE, F.font_lg),
         text(<<40, 175>>, "Parkplatz-", WHITE, F.font_lg),
         text(<<40, 210>>, "Management", WHITE, F.font_lg),
         text(<<40, 260>>, "Einfach. Effizient. Open Source.", <<200, 220, 255>>, F.font_sm),
         rounded_rect(<<40, 320, 170, 380>>, <<255, 255, 255, 30>>, 12, None),
         text(<<60, 335>>, "24/7", WHITE, F.font_bold),
         text(<<60, 358>>, "Verfugbar", <<200, 220, 255>>, F.font_xs),
         rounded_rect(<<190, 320, 340, 380>>, <<255, 255, 255, 30>>, 12, None),
         text(<<210, 335>>, "100%", WHITE, F.font_bold),
         text(<<210, 358>>, "Open Source", <<200, 220, 255>>, F.font_xs),
         text(<<420, 100>>, "Anmeldung", WHITE, F.font_title),
         text(<<420, 135>>, "Melden Sie sich an", GRAY, F.font_sm),
         text(<<420, 180>>, "Benutzername", GRAY, F.font_xs),
         rounded_rect(<<420, 200, 740, 236>>, CARD_BG, 8, CARD_BORDER),
         text(<<435, 210>>, "admin", LIGHT_GRAY, F.font_sm),
         text(<<420, 260>>, "Passwort", GRAY, F.font_xs),
         rounded_rect(<<420, 280, 740, 316>>, CARD_BG, 8, CARD_BORDER),
         \* the placeholder is eight bullet characters (U+2022) in the source
         text(<<435, 290>>, "********", LIGHT_GRAY, F.font_sm),
         rounded_rect(<<420, 340, 740, 376>>, BLUE, 8, None),
         text(<<545, 350>>, "Anmelden", WHITE, F.font_bold) >>)

----------------------------------------------------------------------------
(* create_onboarding, lines 122-152 *)

steps == <<"Passwort", "Anwendungsfall", "Organisation", "Fertig">>

modes == << <<"Unternehmen", "Firmenparkplatze verwalten">>,
            <<"Wohnanlage", "Mieterparkplatze organisieren">>,
            <<"Familie", "Familienparkplatze teilen">> >>

onboarding_step(F, i) ==
    LET x == 130 + i * 160
        color == IF i < 2 THEN BLUE ELSE GRAY
    IN << ellipse(<<x, 96, x + 20, 116>>, color),
          text(<<x - 10, 122>>, steps[i + 1], color, F.font_xs) >>

onboarding_mode(F, i) ==
    LET y == 260 + i * 55
        is_sel == i = 0
        bg == IF is_sel THEN <<59, 130, 246, 30>> ELSE CARD_BG
        ol == IF is_sel THEN BLUE ELSE CARD_BORDER
    IN << rounded_rect(<<130, y, 670, y + 45>>,
                       IF ~is_sel THEN bg ELSE <<30, 50, 80>>, 8, ol),
          text(<<155, y + 6>>, modes[i + 1][1], IF is_sel THEN WHITE ELSE LIGHT_GRAY, F.font_bold),
          text(<<155, y + 26>>, modes[i + 1][2], GRAY, F.font_xs) >>

onboarding_img(F) ==
    Draw(NewImage(W, H, BG),
      << text(<<W \div 2 - 100, 30>>, "Ersteinrichtung", WHITE, F.font_lg),
         rounded_rect(<<100, 80, 700, 90>>, CARD_BG, 5, None),
         rounded_rect(<<100, 80, 400, 90>>, BLUE, 5, None) >>
      \o ForEach(Len(steps), LAMBDA i : onboarding_step(F, i))
      \o << rounded_rect(<<100, 160, 700, 440>>, CARD_BG, 12, CARD_BORDER),
            text(<<130, 180>>, "Anwendungsfall wahlen", WHITE, F.font_title),
            text(<<130, 215>>, "Wie mochten Sie ParkHub nutzen?", GRAY, F.font_sm) >>
      \o ForEach(Len(modes), LAMBDA i : onboarding_mode(F, i))
      \o << rounded_rect(<<550, 450, 700, 480>>, BLUE, 8, None),
            text(<<595, 455>>, "Weiter", WHITE, F.font_bold) >>)

----------------------------------------------------------------------------
(* create_dashboard, lines 155-191 *)

\* Variant: the occupied card counting the cells up to and including P19.
stats_mut == << <<"Stellplatze", "24", GREEN>>, <<"Belegt", "19", RED>>,
                <<"Frei", "6", BLUE>>, <<"Buchungen", "142", PURPLE>> >>
stats == << <<"Stellplatze", "24", GREEN>>, <<"Belegt", "18", RED>>,
            <<"Frei", "6", BLUE>>, <<"Buchungen", "142", PURPLE>> >>

bookings == << <<"Max M.", "P03", "Aktiv">>, <<"Anna S.", "P12", "Aktiv">>,
               <<"Tom K.", "P07", "Beendet">>, <<"Lisa R.", "P21", "Geplant">> >>

dash_rows == 4
dash_cols == 6

dash_stat(F, i) ==
    LET x == 220 + i * 145
    IN << rounded_rect(<<x, 72, x + 132, 142>>, CARD_BG, 10, CARD_BORDER),
          text(<<x + 12, 82>>, stats[i + 1][1], GRAY, F.font_xs),
          text(<<x + 12, 102>>, stats[i + 1][2], stats[i + 1][3], F.font_lg) >>

\* Variant: the comparison off by one.
dash_occupied_mut(r, c) == (r * 6 + c) <= 18
\* line 175: occupied = (r * 6 + c) < 18
dash_occupied(r, c) == (r * 6 + c) < 18

dash_cell(F, r, c) ==
    LET x == 240 + c * 50
        y == 205 + r * 55
        occupied == dash_occupied(r, c)
        color == IF occupied THEN <<239, 68, 68, 100>> ELSE <<34, 197, 94, 100>>
    IN << rounded_rect(<<x, y, x + 40, y + 42>>,
                       IF occupied THEN color ELSE <<30, 60, 40>>, 6,
                       IF occupied THEN RED ELSE GREEN),
          text(<<x + 10, y + 14>>, "P" \o Fmt02(r * 6 + c + 1),
               IF occupied THEN WHITE ELSE GREEN, F.font_xs) >>

dash_booking(F, i) ==
    LET y == 200 + i * 55
        status == bookings[i + 1][3]
        sc == IF status = "Aktiv" THEN GREEN
              ELSE IF status = "Beendet" THEN GRAY ELSE BLUE
    IN << text(<<591, y>>, bookings[i + 1][1], WHITE, F.font_sm),
          text(<<591, y + 20>>, bookings[i + 1][2], GRAY, F.font_xs),
          text(<<710, y + 5>>, status, sc, F.font_xs) >>

dashboard_img(F) ==
    Draw(NewImage(W, H, BG),
      draw_navbar(F, "ParkHub", Some("Dashboard"))
      \o draw_sidebar(F, Some("Dashboard"))
      \o ForEach(Len(stats), LAMBDA i : dash_stat(F, i))
      \o << rounded_rect(<<220, 158, 560, 440>>, CARD_BG, 10, CARD_BORDER),
            text(<<236, 168>>, "Parkplatzbelegung", WHITE, F.font_bold) >>
      \o ForEach(dash_rows, LAMBDA r : ForEach(dash_cols, LAMBDA c : dash_cell(F, r, c)))
      \o << rounded_rect(<<575, 158, 785, 440>>, CARD_BG, 10, CARD_BORDER),
            text(<<591, 168>>, "Letzte Buchungen", WHITE, F.font_bold) >>
      \o ForEach(Len(bookings), LAMBDA i : dash_booking(F, i)))

----------------------------------------------------------------------------
(* create_booking, lines 194-232 *)

book_rows == 3
book_cols == 8

\* line 215: the literal list of the first branch
book_free == {2, 5, 9, 14, 18, 20}
\* line 219: idx == 7
book_selected == {7}

\* <<fill, outline, label colour>> of slot idx, lines 215-226
\* Variant: the elif branch for the selected slot missing.
book_colors_mut(idx) ==
    IF idx \in book_free THEN <<(<<20, 50, 30>>), GREEN, GREEN>>
    ELSE <<(<<50, 30, 30>>), RED, RED>>
book_colors(idx) ==
    IF idx \in book_free THEN <<(<<20, 50, 30>>), GREEN, GREEN>>
    ELSE IF idx \in book_selected THEN <<(<<30, 50, 80>>), BLUE, BLUE>>
    ELSE <<(<<50, 30, 30>>), RED, RED>>

book_cell(F, r, c) ==
    LET x == 240 + c * 65
        y == 240 + r * 60
        idx == r * 8 + c
        col == book_colors(idx)
    IN << rounded_rect(<<x, y, x + 55, y + 48>>, col[1], 6, col[2]),
          text(<<x + 12, y + 16>>, "A" \o Fmt02(idx + 1), col[3], F.font_sm) >>

booking_img(F) ==
    Draw(NewImage(W, H, BG),
      draw_navbar(F, "ParkHub", Some("Buchungen"))
      \o draw_sidebar(F, Some("Buchungen"))
      \o << text(<<220, 72>>, "Stellplatz buchen", WHITE, F.font_title),
            text(<<220, 102>>, "Wahlen Sie einen freien Stellplatz", GRAY, F.font_sm),
            rounded_rect(<<220, 135, 500, 175>>, CARD_BG, 8, CARD_BORDER),
            text(<<235, 147>>, "Datum:  08.02.2026", LIGHT_GRAY, F.font_sm),
            rounded_rect(<<515, 135, 700, 175>>, CARD_BG, 8, CARD_BORDER),
            text(<<530, 147>>, "08:00 - 18:00", LIGHT_GRAY, F.font_sm),
            rounded_rect(<<220, 190, 785, 440>>, CARD_BG, 10, CARD_BORDER),
            text(<<236, 200>>, "Parkplatz A - Tiefgarage", WHITE, F.font_bold) >>
      \o ForEach(book_rows, LAMBDA r : ForEach(book_cols, LAMBDA c : book_cell(F, r, c)))
      \o << rounded_rect(<<240, 430, 500, 460>>, BLUE, 8, None),
            text(<<260, 435>>, "A08 buchen - Bestatigen", WHITE, F.font_sm) >>)

----------------------------------------------------------------------------
(* create_admin, lines 235-274 *)

tabs == <<"Benutzer", "Stellplatze", "Berichte", "Branding", "System">>
headers == <<"Name", "E-Mail", "Rolle", "Status">>
hx == <<240, 380, 540, 660>>
users == << <<"Max Mustermann", "max@firma.de", "Benutzer", "Aktiv">>,
            <<"Anna Schmidt", "anna@firma.de", "Admin", "Aktiv">>,
            <<"Tom Krause", "tom@firma.de", "Benutzer", "Inaktiv">>,
            <<"Lisa Richter", "lisa@firma.de", "Benutzer", "Aktiv">>,
            <<"Jan Weber", "jan@firma.de", "Manager", "Aktiv">> >>

admin_tab(F, i) ==
    LET x == 220 + 100 * i
        is_active == tabs[i + 1] = "Benutzer"
    IN (IF is_active THEN << rounded_rect(<<x, 108, x + 90, 134>>, BLUE, 6, None) >> ELSE <<>>)
       \o << text(<<x + 10, 112>>, tabs[i + 1], IF is_active THEN WHITE ELSE GRAY, F.font_sm) >>

admin_user(F, i) ==
    LET y == 225 + i * 38
        u == users[i + 1]
        rc == IF u[3] = "Admin" THEN PURPLE ELSE IF u[3] = "Manager" THEN BLUE ELSE GRAY
        sc == IF u[4] = "Aktiv" THEN GREEN ELSE RED
    IN << text(<<240, y>>, u[1], WHITE, F.font_sm),
          text(<<380, y>>, u[2], GRAY, F.font_sm),
          text(<<540, y>>, u[3], rc, F.font_sm),
          text(<<660, y>>, u[4], sc, F.font_sm) >>
       \o (IF i < 4 THEN << line(<<236, y + 30, 770, y + 30>>, <<30, 41, 59>>) >> ELSE <<>>)

admin_img(F) ==
    Draw(NewImage(W, H, BG),
      draw_navbar(F, "ParkHub", Some("Admin"))
      \o draw_sidebar(F, Some("Admin"))
      \o << text(<<220, 72>>, "Administration", WHITE, F.font_title) >>
      \o ForEach(Len(tabs), LAMBDA i : admin_tab(F, i))
      \o << rounded_rect(<<220, 150, 785, 440>>, CARD_BG, 10, CARD_BORDER),
            text(<<236, 160>>, "Benutzer (47)", WHITE, F.font_bold) >>
      \o ForEach(Len(headers), LAMBDA i :
           << text(<<hx[i + 1], 195>>, headers[i + 1], GRAY, F.font_xs) >>)
      \o << line(<<236, 215, 770, 215>>, CARD_BORDER) >>
      \o ForEach(Len(users), LAMBDA i : admin_user(F, i)))

----------------------------------------------------------------------------
(* create_themes, lines 277-303 *)

themes == << <<"Default Blue", <<59, 130, 246>> >>, <<"Solarized", <<181, 137, 0>> >>,
             <<"Dracula", <<189, 147, 249>> >>, <<"Nord", <<136, 192, 208>> >>,
             <<"Gruvbox", <<214, 153, 33>> >>, <<"Catppuccin", <<203, 166, 247>> >>,
             <<"Tokyo Night", <<122, 162, 247>> >>, <<"One Dark", <<97, 175, 239>> >>,
             <<"Rose Pine", <<235, 188, 186>> >>, <<"Everforest", <<167, 192, 128>> >> >>

themes_card(F, i) ==
    LET r == i \div 5
        c == i % 5
        x == 60 + c * 145
        y == 145 + r * 170
        is_sel == i = 0
        ol == IF is_sel THEN BLUE ELSE CARD_BORDER
        color == themes[i + 1][2]
    IN << rounded_rect(<<x, y, x + 130, y + 150>>, CARD_BG, 10, ol),
          rounded_rect(<<x + 10, y + 10, x + 120, y + 90>>,
                       <<color[1] \div 4, color[2] \div 4, color[3] \div 4>>, 6, None),
          ellipse(<<x + 50, y + 35, x + 80, y + 65>>, color),
          text(<<x + 10, y + 100>>, themes[i + 1][1],
               IF is_sel THEN WHITE ELSE LIGHT_GRAY, F.font_sm) >>
       \o (IF is_sel THEN << text(<<x + 10, y + 125>>, "Aktiv", BLUE, F.font_xs) >> ELSE <<>>)

themes_img(F) ==
    Draw(NewImage(W, H, BG),
      draw_navbar(F, "ParkHub", None)
      \o << text(<<W \div 2 - 80, 72>>, "Farbthemen", WHITE, F.font_title),
            text(<<W \div 2 - 140, 102>>, "Wahlen Sie Ihr bevorzugtes Erscheinungsbild",
                 GRAY, F.font_sm) >>
      \o ForEach(Len(themes), LAMBDA i : themes_card(F, i)))

----------------------------------------------------------------------------
(* create_mobile, lines 306-349 *)

\* Variant: the phone frame placed 120 from the right edge of the canvas.
px_mut == W - 120
px == 280
py == 20
pw == 240
ph == 460

mobile_stats == << <<"6", "Frei">>, <<"18", "Belegt">> >>
nav_items == <<"Home", "Buchen", "Profil">>

mobile_stat(F, i) ==
    LET x == px + 20 + i * 110
    IN << rounded_rect(<<x, py + 78, x + 95, py + 128>>, CARD_BG, 8, CARD_BORDER),
          text(<<x + 10, py + 84>>, mobile_stats[i + 1][1], BLUE, F.font_bold),
          text(<<x + 10, py + 106>>, mobile_stats[i + 1][2], GRAY, F.font_xs) >>

mobile_cell(F, r, c) ==
    LET x == px + 16 + c * 72
        y == py + 165 + r * 52
        occ == (r * 3 + c) < 5
    IN << rounded_rect(<<x, y, x + 64, y + 42>>,
                       IF occ THEN <<50, 30, 30>> ELSE <<20, 50, 30>>, 6,
                       IF occ THEN RED ELSE GREEN),
          text(<<x + 18, y + 14>>, "P" \o Str(r * 3 + c + 1),
               IF occ THEN RED ELSE GREEN, F.font_xs) >>

mobile_img(F) ==
    Draw(NewImage(W, H, BG),
      << rounded_rect(<<px, py, px + pw, py + ph>>, <<10, 15, 30>>, 24, CARD_BORDER),
         text(<<px + 15, py + 10>>, "9:41", WHITE, F.font_xs),
         rounded_rect(<<px + 8, py + 28, px + pw - 8, py + 68>>, CARD_BG, 10, None),
         rounded_rect(<<px + 16, py + 35, px + 46, py + 60>>, BLUE, 6, None),
         text(<<px + 20, py + 40>>, "PH", WHITE, F.font_sm),
         text(<<px + 54, py + 42>>, "ParkHub", WHITE, F.font_sm) >>
      \o ForEach(Len(mobile_stats), LAMBDA i : mobile_stat(F, i))
      \o << text(<<px + 16, py + 140>>, "Stellplatze", WHITE, F.font_sm) >>
      \o ForEach(3, LAMBDA r : ForEach(3, LAMBDA c : mobile_cell(F, r, c)))
      \o << rounded_rect(<<px + 8, py + ph - 52, px + pw - 8, py + ph - 8>>, CARD_BG, 10, None) >>
      \o ForEach(Len(nav_items), LAMBDA i :
           << text(<<px + 30 + i * 75, py + ph - 38>>, nav_items[i + 1],
                   IF i = 0 THEN BLUE ELSE GRAY, F.font_xs) >>)
      \o << text(<<60, 100>>, "PWA-fahig", WHITE, F.font_title),
            text(<<60, 135>>, "Installierbar auf", GRAY, F.font_sm),
            text(<<60, 158>>, "jedem Gerat", GRAY, F.font_sm),
            text(<<560, 100>>, "Responsive", WHITE, F.font_title),
            text(<<560, 135>>, "Optimiert fur", GRAY, F.font_sm),
            text(<<560, 158>>, "alle Bildschirme", GRAY, F.font_sm) >>)

----------------------------------------------------------------------------
(* create_dark_mode, lines 352-392 *)

mid == W \div 2
swatch_base == <<GREEN, RED, BLUE, PURPLE>>

\* line 372: the dark panel's swatch fill
dark_swatch_fill(c) == <<c[1] \div 6, c[2] \div 6, c[3] \div 6>>
\* Variant: an offset that overflows eight bits.
light_swatch_fill_mut(c) == <<c[1] \div 2 + 129, c[2] \div 2 + 129, c[3] \div 2 + 129>>
\* line 390: the light panel's swatch fill
light_swatch_fill(c) == <<c[1] \div 2 + 128, c[2] \div 2 + 128, c[3] \div 2 + 128>>

\* Variant: the slot code of the dark panel without its leading zero.
dark_row_mut(F, i) ==
    LET y == 155 + i * 50
    IN << rounded_rect(<<50, y, mid - 35, y + 40>>, CARD_BG, 8, CARD_BORDER),
          text(<<65, y + 6>>, "Buchung #" \o Str(i + 1), LIGHT_GRAY, F.font_sm),
          text(<<65, y + 24>>, "Stellplatz P" \o Str(i + 1), GRAY, F.font_xs) >>
\* lines 363-367
dark_row(F, i) ==
    LET y == 155 + i * 50
    IN << rounded_rect(<<50, y, mid - 35, y + 40>>, CARD_BG, 8, CARD_BORDER),
          text(<<65, y + 6>>, "Buchung #" \o Str(i + 1), LIGHT_GRAY, F.font_sm),
          text(<<65, y + 24>>, "Stellplatz P0" \o Str(i + 1), GRAY, F.font_xs) >>

\* lines 381-385
light_row(F, i) ==
    LET y == 155 + i * 50
    IN << rounded_rect(<<mid + 35, y, W - 50, y + 40>>, WHITE, 8, <<229, 231, 235>>),
          text(<<mid + 50, y + 6>>, "Buchung #" \o Str(i + 1), <<30, 41, 59>>, F.font_sm),
          text(<<mid + 50, y + 24>>, "Stellplatz P0" \o Str(i + 1), <<107, 114, 128>>, F.font_xs) >>

\* lines 358-374
dark_panel(F) ==
    << rounded_rect(<<30, 30, mid - 15, H - 30>>, <<15, 23, 42>>, 12, CARD_BORDER),
       text(<<50, 45>>, "Dark Mode", WHITE, F.font_bold),
       rounded_rect(<<50, 80, mid - 35, 140>>, CARD_BG, 8, CARD_BORDER),
       text(<<65, 90>>, "Dashboard", WHITE, F.font_sm),
       text(<<65, 112>>, "18 von 24 belegt", GRAY, F.font_xs) >>
    \o ForEach(3, LAMBDA i : dark_row(F, i))
    \o << rounded_rect(<<50, 320, mid - 35, 380>>, CARD_BG, 8, CARD_BORDER) >>
    \o ForEach(Len(swatch_base), LAMBDA j :
         LET x == 60 + j * 80
             c == swatch_base[j + 1]
         IN << rounded_rect(<<x, 330, x + 65, 370>>, dark_swatch_fill(c), 6, c) >>)
    \o << text(<<50, 400>>, "Automatische Erkennung", GRAY, F.font_xs) >>

\* lines 376-391
light_panel(F) ==
    << rounded_rect(<<mid + 15, 30, W - 30, H - 30>>, <<248, 250, 252>>, 12, <<229, 231, 235>>),
       text(<<mid + 35, 45>>, "Light Mode", <<30, 41, 59>>, F.font_bold),
       rounded_rect(<<mid + 35, 80, W - 50, 140>>, WHITE, 8, <<229, 231, 235>>),
       text(<<mid + 50, 90>>, "Dashboard", <<30, 41, 59>>, F.font_sm),
       text(<<mid + 50, 112>>, "18 von 24 belegt", <<107, 114, 128>>, F.font_xs) >>
    \o ForEach(3, LAMBDA i : light_row(F, i))
    \o << rounded_rect(<<mid + 35, 320, W - 50, 380>>, WHITE, 8, <<229, 231, 235>>) >>
    \o ForEach(Len(swatch_base), LAMBDA j :
         LET x == mid + 45 + j * 80
             c == swatch_base[j + 1]
         IN << rounded_rect(<<x, 330, x + 65, 370>>, light_swatch_fill(c), 6, c) >>)
    \o << text(<<mid + 35, 400>>, "Systemeinstellung", <<107, 114, 128>>, F.font_xs) >>

dark_mode_img(F) == Draw(NewImage(W, H, BG), dark_panel(F) \o light_panel(F))

----------------------------------------------------------------------------
(* The script as a process: lines 21-33 at import, lines 395-415 as main *)

Screens == <<"welcome", "login", "onboarding", "dashboard", "booking",
             "admin", "themes", "mobile", "dark-mode">>

\* Variant: create_mobile saving under the name of the next screen.
FileName_mut(name) == IF name = "mobile" THEN "dark-mode.png" ELSE name \o ".png"
\* os.path.join(OUT_DIR, '<name>.png')
FileName(name) == name \o ".png"

Summary == "Done! All screenshots saved to OUT_DIR"

Preferred == [n \in FontNames |->
                LET l == CHOOSE l \in {FontLoads[i] : i \in 1..Len(FontLoads)} : l.name = n
                IN truetype(l.file, l.size)]

\* Directory contents before the first process.
StaleImg == NewImage(W, H, WHITE)
NoFiles == [f \in {} |-> StaleImg]
StaleFiles == [f \in {"welcome.png", "old.png"} |-> StaleImg]
\* What a write that failed part-way leaves behind.
Truncated == [size |-> <<0, 0>>, bg |-> None, ops |-> <<>>]

Put(fs, f, content) == [g \in DOMAIN fs \cup {f} |-> IF g = f THEN content ELSE fs[g]]

BlankWidget == NewImage(W, H, BG)

harness == <<widget, calls>>
parallel == <<cpc, canvases, overlap>>
capture == <<bfn, bip, live, launched, blog, exitcode, cause, missed>>

\* The composers are not run as units of work.
IdleParallel ==
    /\ cpc = [n \in {} |-> ""]
    /\ canvases = [k \in {} |-> StaleImg]
    /\ overlap = FALSE

\* The capture script is not run.
IdleCapture ==
    /\ bfn = "idle"
    /\ bip = 0
    /\ live = 0
    /\ launched = <<>>
    /\ blog = <<>>
    /\ exitcode = -1
    /\ cause = ""
    /\ missed = FALSE

MainInit ==
    /\ pc = "makedirs"
    /\ run = 1
    /\ dirExists \in BOOLEAN
    /\ dir0 = dirExists
    /\ files \in (IF dirExists THEN {NoFiles, StaleFiles} ELSE {NoFiles})
    /\ fonts = NoFonts
    /\ fontFailed = FALSE
    /\ out = <<>>
    /\ started = <<>>
    /\ failed = ""
    /\ saved = <<>>
    /\ prevSaved = {}
    /\ prevFonts = NoFonts

Init ==
    /\ MainInit
    /\ widget = BlankWidget
    /\ calls = <<>>
    /\ IdleParallel
    /\ IdleCapture

history == <<prevSaved, prevFonts, dir0>>

\* line 22: os.makedirs(OUT_DIR, exist_ok=True); an OSError is not caught.
makedirs ==
    /\ pc = "makedirs"
    /\ \/ /\ dirExists' = TRUE
          /\ pc' = FontLoads[1].name
          /\ failed' = failed
       \/ /\ ~dirExists
          /\ dirExists' = dirExists
          /\ pc' = "aborted"
          /\ failed' = "makedirs"
    /\ UNCHANGED <<run, files, fonts, out, started, saved, fontFailed, history, harness, parallel, capture>>

\* lines 25-30: one ImageFont.truetype call of the try block.
load_font(i) ==
    /\ pc = FontLoads[i].name
    /\ \/ /\ fonts' = [fonts EXCEPT ![FontLoads[i].name] =
                          truetype(FontLoads[i].file, FontLoads[i].size)]
          /\ pc' = IF i < Len(FontLoads) THEN FontLoads[i + 1].name ELSE "main"
          /\ fontFailed' = fontFailed
       \/ /\ fonts' = fonts
          /\ pc' = "except"
          /\ fontFailed' = TRUE
    /\ UNCHANGED <<run, dirExists, files, out, started, failed, saved, history, harness, parallel, capture>>

\* lines 31-33: the bare except.
font_fallback ==
    /\ pc = "except"
    /\ fonts' = Fallback(fonts)
    /\ pc' = "main"
    /\ UNCHANGED <<run, dirExists, files, out, started, failed, saved, fontFailed, history, harness, parallel, capture>>

\* line 396
main ==
    /\ pc = "main"
    /\ out' = Append(out, "Generating screenshots...")
    /\ pc' = Screens[1]
    /\ UNCHANGED <<run, dirExists, files, fonts, started, failed, saved, fontFailed, history, harness, parallel, capture>>

\* img.save raised: the exception leaves the composer and the script.
\* Variant: the exception swallowed and main going on.
SaveFailed_mut(name, next) ==
    /\ pc' = next
    /\ failed' = name
    /\ files' \in {files, Put(files, FileName(name), Truncated)}
    /\ UNCHANGED <<out, saved>>
SaveFailed(name, next) ==
    /\ pc' = "aborted"
    /\ failed' = name
    /\ files' \in {files, Put(files, FileName(name), Truncated)}
    /\ UNCHANGED <<out, saved>>

\* img.save succeeded; main prints the file name (lines 397-414).
SaveOk(name, img, next) ==
    /\ dirExists
    /\ files' = Put(files, FileName(name), img)
    /\ saved' = Append(saved, FileName(name))
    /\ out' = Append(out, "  " \o name \o ".png")
    /\ pc' = next
    /\ failed' = failed

\* One call create_<name>() of main with the print that follows it.
Compose(name, img, next) ==
    /\ pc = name
    /\ started' = Append(started, name)
    /\ (SaveOk(name, img, next) \/ SaveFailed(name, next))
    /\ UNCHANGED <<run, dirExists, fonts, fontFailed, history, harness, parallel, capture>>

create_welcome == Compose("welcome", welcome_img(fonts), "login")
create_login == Compose("login", login_img(fonts), "onboarding")
create_onboarding == Compose("onboarding", onboarding_img(fonts), "dashboard")
create_dashboard == Compose("dashboard", dashboard_img(fonts), "booking")
create_booking == Compose("booking", booking_img(fonts), "admin")
create_admin == Compose("admin", admin_img(fonts), "themes")
create_themes == Compose("themes", themes_img(fonts), "mobile")
create_mobile == Compose("mobile", mobile_img(fonts), "dark-mode")
create_dark_mode == Compose("dark-mode", dark_mode_img(fonts), "summary")

\* line 415
print_done ==
    /\ pc = "summary"
    /\ out' = Append(out, Summary)
    /\ pc' = "done"
    /\ UNCHANGED <<run, dirExists, files, fonts, started, failed, saved, fontFailed, history, harness, parallel, capture>>

\* The script is invoked again: a new process, the same directory.
StartRun ==
    /\ pc \in {"done", "aborted"}
    /\ run < MaxRuns
    /\ run' = run + 1
    /\ pc' = "makedirs"
    /\ fonts' = NoFonts
    /\ fontFailed' = FALSE
    /\ out' = <<>>
    /\ started' = <<>>
    /\ failed' = ""
    /\ saved' = <<>>
    /\ prevSaved' = {saved[i] : i \in 1..Len(saved)}
    /\ prevFonts' = fonts
    /\ UNCHANGED <<dirExists, files, dir0, harness, parallel, capture>>

Next ==
    \/ makedirs
    \/ \E i \in 1..Len(FontLoads) : load_font(i)
    \/ font_fallback
    \/ main
    \/ create_welcome
    \/ create_login
    \/ create_onboarding
    \/ create_dashboard
    \/ create_booking
    \/ create_admin
    \/ create_themes
    \/ create_mobile
    \/ create_dark_mode
    \/ print_done
    \/ StartRun

Spec == Init /\ [][Next]_vars

----------------------------------------------------------------------------
(* The widgets called directly: the module is imported, so that lines 21-33  *)
(* have run and main has not, and draw_navbar and draw_sidebar are called   *)
(* on one canvas with arguments of the caller's choice.                     *)

Titles == {"ParkHub", "Admin"}
ActiveArgs == {None} \cup {Some(a) : a \in {"Dashboard", "Buchungen", "Fahrzeuge", "Homeoffice",
                                            "Profil", "Admin", "dashboard", "Admin ", ""}}

InitWidgets ==
    /\ pc = "imported"
    /\ run = 1
    /\ dirExists = TRUE
    /\ dir0 \in BOOLEAN
    /\ files = NoFiles
    /\ fontFailed \in BOOLEAN
    /\ fonts = IF fontFailed THEN Fallback(NoFonts) ELSE Preferred
    /\ out = <<>>
    /\ started = <<>>
    /\ failed = ""
    /\ saved = <<>>
    /\ prevSaved = {}
    /\ prevFonts = NoFonts
    /\ widget = BlankWidget
    /\ calls = <<>>
    /\ IdleParallel
    /\ IdleCapture

process == <<pc, run, dirExists, files, fonts, out, started, failed, saved,
             prevSaved, prevFonts, dir0, fontFailed>>

Call(w, active, ops) ==
    /\ pc = "imported"
    /\ Len(calls) < MaxCalls
    /\ widget' = Draw(widget, ops)
    /\ calls' = Append(calls, [w |-> w, active |-> active,
                               first |-> Len(widget.ops) + 1,
                               last |-> Len(widget.ops) + Len(ops)])
    /\ UNCHANGED <<process, parallel, capture>>

call_navbar ==
    \E title \in Titles, active \in ActiveArgs :
        Call("navbar", active, draw_navbar(fonts, title, active))

call_sidebar ==
    \E active \in ActiveArgs :
        Call("sidebar", active, draw_sidebar(fonts, active))

NextWidgets == call_navbar \/ call_sidebar

SpecWidgets == InitWidgets /\ [][NextWidgets]_vars

----------------------------------------------------------------------------
(* The composers as units of work: the nine calls of main made in any      *)
(* order, the steps of up to MaxWorkers of them interleaved. Each composer *)
(* is three steps: Image.new, its draw calls, img.save.                     *)

MaxWorkers == 2

\* The canvas a composer builds: the body of create_<name> up to img.save.
Composer(name, F) ==
    CASE name = "welcome" -> welcome_img(F)
      [] name = "login" -> login_img(F)
      [] name = "onboarding" -> onboarding_img(F)
      [] name = "dashboard" -> dashboard_img(F)
      [] name = "booking" -> booking_img(F)
      [] name = "admin" -> admin_img(F)
      [] name = "themes" -> themes_img(F)
      [] name = "mobile" -> mobile_img(F)
      [] name = "dark-mode" -> dark_mode_img(F)

ScreenNames == {Screens[i] : i \in 1..Len(Screens)}

\* Variant: one module-level canvas variable used by every composer.
CanvasOf_mut(name) == "img"
\* The variable holding a composer's canvas: "img", local to create_<name>.
CanvasOf(name) == "create_" \o name \o ".img"

InFlight == {n \in ScreenNames : cpc[n] \in {"new", "drawn"}}

InitParallel ==
    /\ pc = "main"
    /\ run = 1
    /\ dirExists = TRUE
    /\ dir0 = TRUE
    /\ files = StaleFiles
    /\ fonts \in {Preferred, Fallback(NoFonts)}
    /\ fontFailed = (fonts # Preferred)
    /\ out = <<>>
    /\ started = <<>>
    /\ failed = ""
    /\ saved = <<>>
    /\ prevSaved = {}
    /\ prevFonts = NoFonts
    /\ widget = BlankWidget
    /\ calls = <<>>
    /\ cpc = [n \in ScreenNames |-> "todo"]
    /\ canvases = [k \in {} |-> StaleImg]
    /\ overlap = FALSE
    /\ IdleCapture

sequential == <<pc, run, dirExists, fonts, out, fontFailed, failed, history>>

\* img = Image.new('RGB', (W, H), BG)
image_new(name) ==
    /\ cpc[name] = "todo"
    /\ Cardinality(InFlight) < MaxWorkers
    /\ cpc' = [cpc EXCEPT ![name] = "new"]
    /\ canvases' = Put(canvases, CanvasOf(name), NewImage(W, H, BG))
    /\ overlap' = (overlap \/ \E i \in 1..Len(Screens) :
                        /\ Screens[i] = name
                        /\ \E j \in 1..(i - 1) : cpc[Screens[j]] # "saved")
    /\ UNCHANGED <<files, started, saved, sequential, harness, capture>>

\* draw = ImageDraw.Draw(img) and the draw calls of the composer; they need
\* img bound.
draw_calls(name) ==
    /\ cpc[name] = "new"
    /\ CanvasOf(name) \in DOMAIN canvases
    /\ cpc' = [cpc EXCEPT ![name] = "drawn"]
    /\ canvases' = [canvases EXCEPT ![CanvasOf(name)] =
                       Draw(@, Composer(name, fonts).ops)]
    /\ UNCHANGED <<files, overlap, started, saved, sequential, harness, capture>>

\* img.save(os.path.join(OUT_DIR, '<name>.png')); the return unbinds img.
image_save(name) ==
    /\ cpc[name] = "drawn"
    /\ CanvasOf(name) \in DOMAIN canvases
    /\ cpc' = [cpc EXCEPT ![name] = "saved"]
    /\ files' = Put(files, FileName(name), canvases[CanvasOf(name)])
    /\ canvases' = [k \in DOMAIN canvases \ {CanvasOf(name)} |-> canvases[k]]
    /\ UNCHANGED <<overlap, started, saved, sequential, harness, capture>>

NextParallel ==
    \E name \in ScreenNames :
        \/ image_new(name)
        \/ draw_calls(name)
        \/ image_save(name)

SpecParallel == InitParallel /\ [][NextParallel]_vars

----------------------------------------------------------------------------
(* The browser capture script, take_screenshots.py: __main__ checks that   *)
(* the application answers, then take_desktop, take_mobile and take_tablet *)
(* each drive one browser through a list of steps.                         *)

Step(k, nav, file, find) == [k |-> k, nav |-> nav, file |-> file, find |-> find]

\* d.get(f"{BASE}<path>") and shot(d, name) at the top level of a function
Get(path) == Step("get", path, "", FALSE)
Shot(name) == Step("shot", "", name, FALSE)
\* a try block that looks for an element, clicks it and takes a screenshot
Try(name) == Step("try", "", name, TRUE)

\* lines 15-23: the driver is started, then resized
make_driver == << Step("start", "", "", FALSE), Step("resize", "", "", FALSE) >>

\* lines 28-40: the navigation is outside the try block, the form inside
login == << Get("/login"), Step("form", "", "", TRUE) >>

Palettes == <<"palette-solarized.png", "palette-dracula.png", "palette-nord.png">>

\* lines 47-184
take_desktop ==
    make_driver
    \o << Get("/login"), Shot("login-desktop.png") >>
    \o login
    \o << Get("/"), Shot("dashboard-desktop.png"),
          Get("/book"), Shot("booking-desktop.png"),
          Try("booking-plate.png"),
          Get("/bookings"), Shot("bookings-list.png"),
          Get("/admin"), Shot("admin-overview.png"),
          Try("admin-users.png"),
          Try("admin-lots.png"),
          Get("/admin/branding"), Shot("admin-branding.png"),
          Step("try", "/admin", "admin-system.png", TRUE),
          Get("/privacy"), Shot("privacy-page.png"),
          Get("/about"), Shot("about-page.png"),
          Get("/"), Shot("themes-light.png"),
          Try("themes-dark.png") >>
    \o [i \in 1..Len(Palettes) |-> Step("try", "/", Palettes[i], FALSE)]
    \o << Step("script", "", "", FALSE), Step("quit", "", "", FALSE) >>

\* lines 186-226
take_mobile ==
    make_driver
    \o << Get("/login"), Shot("mobile-login.png") >>
    \o login
    \o << Get("/"), Shot("mobile-dashboard.png"),
          Get("/book"), Shot("mobile-booking.png"),
          Get("/admin"), Shot("mobile-admin.png"),
          Try("mobile-dark.png"),
          Step("quit", "", "", FALSE) >>

\* lines 228-239
take_tablet ==
    make_driver
    \o << Get("/login") >>
    \o login
    \o << Get("/"), Shot("tablet-dashboard.png"), Step("quit", "", "", FALSE) >>

Functions == <<"take_desktop", "take_mobile", "take_tablet">>

Program(fn) ==
    CASE fn = "take_desktop" -> take_desktop
      [] fn = "take_mobile" -> take_mobile
      [] fn = "take_tablet" -> take_tablet

\* lines 252-254: what __main__ does after a function returns
After(fn) ==
    CASE fn = "take_desktop" -> "take_mobile"
      [] fn = "take_mobile" -> "take_tablet"
      [] fn = "take_tablet" -> "summary"

\* What a step that completed appends to the record of the run.
Entries(st) ==
    (IF st.nav = "" THEN <<>> ELSE <<st.nav>>)
    \o (IF st.file = "" THEN <<>> ELSE <<st.file>>)

\* Variant: the except clause of login re-raising.
Caught_mut(k) == k = "try"
\* lines 31/39, 70/80, 94/103, 107/116, 125/136, 155/164, 169/177: the step
\* kinds that run inside a try block of their own.
Caught(k) == k \in {"form", "try"}

InitCapture ==
    /\ pc = "idle"
    /\ run = 1
    /\ dirExists = TRUE
    /\ dir0 = TRUE
    /\ files = NoFiles
    /\ fonts = NoFonts
    /\ fontFailed = FALSE
    /\ out = <<>>
    /\ started = <<>>
    /\ failed = ""
    /\ saved = <<>>
    /\ prevSaved = {}
    /\ prevFonts = NoFonts
    /\ widget = BlankWidget
    /\ calls = <<>>
    /\ IdleParallel
    /\ bfn = "import"
    /\ bip = 1
    /\ live = 0
    /\ launched = <<>>
    /\ blog = <<>>
    /\ exitcode = -1
    /\ cause = ""
    /\ missed = FALSE

generator == <<pc, run, dirExists, files, fonts, out, started, failed, saved,
               fontFailed, history, harness, parallel>>

Running == bfn \in {Functions[i] : i \in 1..Len(Functions)}
At(k) == Running /\ bip <= Len(Program(bfn)) /\ Program(bfn)[bip].k = k

\* An exception no try block of the script catches ends the process.
Traceback(k) ==
    /\ bfn' = "aborted"
    /\ exitcode' = 1
    /\ cause' = k

\* An exception raised by a step inside the try block of a take_ function:
\* control passes to the finally clause.
Raise(k) ==
    /\ cause' = k
    /\ bip' = Len(Program(bfn))
    /\ UNCHANGED <<bfn, exitcode>>

\* line 13: os.makedirs(OUT, exist_ok=True)
capture_makedirs ==
    /\ bfn = "import"
    /\ \/ /\ bfn' = "main"
          /\ UNCHANGED <<exitcode, cause>>
       \/ Traceback("makedirs")
    /\ UNCHANGED <<bip, live, launched, blog, missed, generator>>

\* lines 244-249: urlopen(BASE, timeout=5); on any exception exit(1)
urlopen ==
    /\ bfn = "main"
    /\ \/ /\ bfn' = Functions[1]
          /\ UNCHANGED <<exitcode, cause>>
       \/ /\ bfn' = "exited"
          /\ exitcode' = 1
          /\ cause' = "urlopen"
    /\ UNCHANGED <<bip, live, launched, blog, missed, generator>>

\* line 21: d = webdriver.Firefox(options=opts, service=svc)
Firefox ==
    /\ At("start")
    /\ \/ /\ live' = live + 1
          /\ launched' = Append(launched, bfn)
          /\ bip' = bip + 1
          /\ UNCHANGED <<bfn, exitcode, cause>>
       \/ /\ Traceback("start")
          /\ UNCHANGED <<live, launched, bip>>
    /\ UNCHANGED <<blog, missed, generator>>

\* line 22: d.set_window_size(width, height); make_driver is called before
\* the try statement of the take_ function.
set_window_size ==
    /\ At("resize")
    /\ \/ /\ bip' = bip + 1
          /\ UNCHANGED <<bfn, exitcode, cause>>
       \/ /\ Traceback("resize")
          /\ bip' = bip
    /\ UNCHANGED <<live, launched, blog, missed, generator>>

\* d.get(...) at the top level of a take_ function or of login
get ==
    /\ At("get")
    /\ \/ /\ blog' = blog \o Entries(Program(bfn)[bip])
          /\ bip' = bip + 1
          /\ UNCHANGED <<bfn, exitcode, cause>>
       \/ /\ Raise("get")
          /\ blog' = blog
    /\ UNCHANGED <<live, launched, missed, generator>>

\* lines 42-45: shot(d, name) at the top level of a take_ function
shot ==
    /\ At("shot")
    /\ \/ /\ blog' = blog \o Entries(Program(bfn)[bip])
          /\ bip' = bip + 1
          /\ UNCHANGED <<bfn, exitcode, cause>>
       \/ /\ Raise("shot")
          /\ blog' = blog
    /\ UNCHANGED <<live, launched, missed, generator>>

\* The outcome of a step inside a try block of its own: it completes, or an
\* element is not located, or another exception is raised.
Handled(k, done, notfound) ==
    IF done \/ Caught(k)
    THEN /\ bip' = bip + 1
         /\ missed' = (missed \/ notfound)
         /\ UNCHANGED <<bfn, exitcode, cause>>
    ELSE /\ Raise(k)
         /\ missed' = (missed \/ notfound)

\* lines 31-40: the try block of login
login_form ==
    /\ At("form")
    /\ \E done \in BOOLEAN, notfound \in BOOLEAN :
          /\ ~(done /\ notfound)
          /\ Handled("form", done, notfound)
    /\ UNCHANGED <<live, launched, blog, generator>>

\* lines 70-81, 94-104, 107-117, 125-137, 155-165, 169-178, 213-223: a try
\* block whose exceptions are passed over; the steps done before the
\* exception stay done.
try_block ==
    /\ At("try")
    /\ LET st == Program(bfn)[bip]
           all == Entries(st)
       IN \E n \in 0..Len(all), notfound \in BOOLEAN :
             /\ notfound => st.find /\ n = Len(all) - 1
             /\ blog' = blog \o SubSeq(all, 1, n)
             /\ Handled("try", n = Len(all), notfound)
    /\ UNCHANGED <<live, launched, generator>>

\* line 181: d.execute_script("localStorage.removeItem(...)")
execute_script ==
    /\ At("script")
    /\ \/ /\ bip' = bip + 1
          /\ UNCHANGED <<bfn, exitcode, cause>>
       \/ Raise("script")
    /\ UNCHANGED <<live, launched, blog, missed, generator>>

\* lines 183-184, 225-226, 238-239: finally: d.quit(); an exception on its
\* way out of the try block then leaves the function and ends the process.
quit ==
    /\ At("quit")
    /\ live' = live - 1
    /\ IF cause = ""
       THEN /\ bfn' = After(bfn)
            /\ bip' = 1
            /\ UNCHANGED <<exitcode, cause>>
       ELSE /\ bfn' = "aborted"
            /\ exitcode' = 1
            /\ UNCHANGED <<bip, cause>>
    /\ UNCHANGED <<launched, blog, missed, generator>>

\* lines 254-255: the two prints; os.listdir(OUT) may raise
print_total ==
    /\ bfn = "summary"
    /\ \/ /\ bfn' = "done"
          /\ exitcode' = 0
          /\ cause' = cause
       \/ Traceback("listdir")
    /\ UNCHANGED <<bip, live, launched, blog, missed, generator>>

NextCapture ==
    \/ capture_makedirs
    \/ urlopen
    \/ Firefox
    \/ set_window_size
    \/ get
    \/ shot
    \/ login_form
    \/ try_block
    \/ execute_script
    \/ quit
    \/ print_total

SpecCapture == InitCapture /\ [][NextCapture]_vars

----------------------------------------------------------------------------
(* Properties of a run of the generator *)

Range(s) == {s[i] : i \in 1..Len(s)}
NineFiles == {FileName(Screens[i]) : i \in 1..Len(Screens)}
AllDefault == [n \in FontNames |-> DefaultFont]

\* C1: the composers run in the fixed order welcome .. dark-mode and the run
\* is fail-fast: the screens entered and the files saved are prefixes of that
\* order; when the save of the k-th screen raises, the process is aborted
\* with exactly k screens entered and k-1 files saved and no summary line;
\* the summary line is printed only after all nine files were saved.
C1_FailFastInOrder ==
    LET n == Len(saved)
    IN /\ Len(started) <= Len(Screens)
       /\ \A i \in 1..Len(started) : started[i] = Screens[i]
       /\ n <= Len(started)
       /\ \A i \in 1..n : saved[i] = Screens[i] \o ".png"
       /\ failed \in Range(Screens) =>
            /\ pc = "aborted"
            /\ Len(started) = n + 1
            /\ started[n + 1] = failed
            /\ Summary \notin Range(out)
       /\ failed = "" => Len(started) = n
       /\ pc = "aborted" => failed # ""
       /\ pc \in Range(Screens) => /\ Len(started) = n
                                   /\ pc = Screens[n + 1]
       /\ Summary \in Range(out) =>
            /\ pc = "done"
            /\ n = Len(Screens)
            /\ \A i \in 1..Len(Screens) : Screens[i] \o ".png" \in DOMAIN files

\* C1 witness: the save of the fourth screen raised after three files were saved.
C1_Witness ==
    /\ pc = "aborted"
    /\ failed = "dashboard"
    /\ saved = <<"welcome.png", "login.png", "onboarding.png">>
    /\ started = <<"welcome", "login", "onboarding", "dashboard">>

\* C2: when OUT_DIR did not exist before the first run and that run ends
\* without an I/O failure, the directory exists and holds exactly the nine
\* files welcome.png .. dark-mode.png.
C2_ExactlyNineFiles ==
    (~dir0 /\ run = 1 /\ pc = "done") =>
        /\ dirExists
        /\ DOMAIN files = {"welcome.png", "login.png", "onboarding.png", "dashboard.png",
                           "booking.png", "admin.png", "themes.png", "mobile.png",
                           "dark-mode.png"}

\* C2 witness: the first run completed on a directory that did not exist.
C2_Witness == ~dir0 /\ run = 1 /\ pc = "done" /\ Len(saved) = 9

\* The file a process is about to save was saved by the previous process too.
Resaves(f) == f \in prevSaved /\ saved' = Append(saved, f)

\* C3 as stated: whatever a run saves for a screen is the content the
\* previous run saved for it, whatever else differs between the two runs.
C3_SameContentAlways ==
    [][\A f \in NineFiles : Resaves(f) => files'[f] = files[f]]_vars

\* C3 amended: a run saves for a screen the content the previous run saved
\* for it whenever both runs bound the six font names to the same handles.
C3_SameContentSameFonts ==
    [][\A f \in NineFiles : (Resaves(f) /\ prevFonts = fonts) => files'[f] = files[f]]_vars

\* C3 witness: a second complete run with the fonts of a complete first run.
C3_Witness ==
    /\ run = 2
    /\ pc = "done"
    /\ prevSaved = NineFiles
    /\ prevFonts = fonts
    /\ \A f \in NineFiles : f \in DOMAIN files /\ files[f].ops # <<>>

\* C4: whichever of the six loads raises (the try block ends at the first
\* that does), font initialisation never ends the process; once it is over every
\* font name is bound to a handle, and when a load raised all six names are
\* bound to the default font, so the six are never a mix.
FontInitOver == pc \notin {"makedirs", "except"} \cup FontNames /\ failed # "makedirs"
C4_FontFallback ==
    /\ pc = "aborted" => failed \in {"makedirs"} \cup Range(Screens)
    /\ FontInitOver =>
         /\ \A n \in FontNames : fonts[n] # Unbound
         /\ fontFailed => \A n \in FontNames : fonts[n] = DefaultFont
         /\ fonts \in {Preferred, AllDefault}

\* C4 witness: a load raised and the script went on to main with the default font.
C4_Witness ==
    /\ pc = "main"
    /\ fontFailed
    /\ \A n \in FontNames : fonts[n] = DefaultFont

----------------------------------------------------------------------------
(* Properties of the canvases the composers save *)

\* File f was saved by the current process: files[f] is the composer's canvas.
Saved(f) == f \in Range(saved)
Ops(f) == files[f].ops
Pick(ops, kind, xy) == {i \in 1..Len(ops) : ops[i].op = kind /\ ops[i].xy = xy}
Texts(ops) == [i \in 1..Len(ops) |-> ops[i].text]

\* The <<fill, outline, label colour>> combinations drawn for a grid cell whose
\* box is at (x, y) with the given size and whose label is at (x+dx, y+dy).
Looks(ops, x, y, w, h, dx, dy) ==
    {<<ops[i].fill, ops[i].outline, ops[j].fill>> :
        i \in Pick(ops, "rounded_rectangle", <<x, y, x + w, y + h>>),
        j \in Pick(ops, "text", <<x + dx, y + dy>>)}

DashCells == (0..3) \X (0..5)
DashLooks(rc) == Looks(Ops("dashboard.png"), 240 + rc[2] * 50, 205 + rc[1] * 55, 40, 42, 10, 14)
DashOccupiedLook == <<(<<239, 68, 68, 100>>), RED, WHITE>>
DashFreeLook == <<(<<30, 60, 40>>), GREEN, GREEN>>

\* C5: in the saved dashboard every cell of the 4x6 grid is drawn once, in
\* the occupied look when r*6+c < 18 and in the free look otherwise, so 18
\* cells are occupied and 6 are free.
C5_DashboardGrid ==
    Saved("dashboard.png") =>
        LET look == [rc \in DashCells |-> DashLooks(rc)]
        IN /\ \A rc \in DashCells :
                /\ look[rc] \in {{DashOccupiedLook}, {DashFreeLook}}
                /\ (look[rc] = {DashOccupiedLook}) <=> (rc[1] * 6 + rc[2] < 18)
           /\ Cardinality({rc \in DashCells : look[rc] = {DashOccupiedLook}}) = 18
           /\ Cardinality({rc \in DashCells : look[rc] = {DashFreeLook}}) = 6

\* C5 witness: the saved dashboard shows cell 17 occupied and cell 18 free.
C5_Witness ==
    /\ Saved("dashboard.png")
    /\ DashLooks(<<2, 5>>) = {DashOccupiedLook}
    /\ DashLooks(<<3, 0>>) = {DashFreeLook}

BookCells == (0..2) \X (0..7)
BookIdx(rc) == rc[1] * 8 + rc[2]
BookLooks(rc) == Looks(Ops("booking.png"), 240 + rc[2] * 65, 240 + rc[1] * 60, 55, 48, 12, 16)
BookFreeLook == <<(<<20, 50, 30>>), GREEN, GREEN>>
BookSelectedLook == <<(<<30, 50, 80>>), BLUE, BLUE>>
BookOccupiedLook == <<(<<50, 30, 30>>), RED, RED>>

\* C6: in the saved booking screen every cell of the 3x8 grid is drawn once
\* in exactly one of the looks free, selected, occupied, decided by its
\* index r*8+c: a cell of the selected list is never drawn occupied, and a
\* cell is drawn occupied only when its index is in neither list.
C6_BookingGrid ==
    Saved("booking.png") =>
        LET look == [rc \in BookCells |-> BookLooks(rc)]
        IN \A rc \in BookCells :
            /\ look[rc] \in {{BookFreeLook}, {BookSelectedLook}, {BookOccupiedLook}}
            /\ BookIdx(rc) \in {7} => look[rc] = {BookSelectedLook}
            /\ BookIdx(rc) \in {2, 5, 9, 14, 18, 20} => look[rc] = {BookFreeLook}
            /\ look[rc] = {BookOccupiedLook} =>
                   BookIdx(rc) \notin {2, 5, 9, 14, 18, 20} \cup {7}

\* C6 witness: the saved booking screen shows slot 7 selected, slot 2 free
\* and slot 0 occupied.
C6_Witness ==
    /\ Saved("booking.png")
    /\ BookLooks(<<0, 7>>) = {BookSelectedLook}
    /\ BookLooks(<<0, 2>>) = {BookFreeLook}
    /\ BookLooks(<<0, 0>>) = {BookOccupiedLook}

IsDarkText(o) == o.op = "text" /\ o.xy[1] < files["dark-mode.png"].size[1] \div 2
IsLightText(o) == o.op = "text" /\ o.xy[1] >= files["dark-mode.png"].size[1] \div 2
DarkTexts == Texts(SelectSeq(Ops("dark-mode.png"), IsDarkText))
LightTexts == Texts(SelectSeq(Ops("dark-mode.png"), IsLightText))

\* C7 as stated: the strings drawn in the dark panel are, in order, the
\* strings drawn in the light panel.
C7_PanelsSameTexts == Saved("dark-mode.png") => DarkTexts = LightTexts

\* C7 amended: each panel draws ten strings; the second to the ninth are
\* equal string for string, the first is the panel's own title and the
\* tenth the panel's own caption.
C7_PanelsSameBody ==
    Saved("dark-mode.png") =>
        /\ Len(DarkTexts) = 10
        /\ Len(LightTexts) = 10
        /\ \A i \in 2..9 : DarkTexts[i] = LightTexts[i]
        /\ DarkTexts[1] = "Dark Mode" /\ LightTexts[1] = "Light Mode"
        /\ DarkTexts[10] = "Automatische Erkennung" /\ LightTexts[10] = "Systemeinstellung"

\* C7 witness: the saved split screen, whose two panels both show booking 3.
C7_Witness ==
    /\ Saved("dark-mode.png")
    /\ DarkTexts[8] = "Buchung #3" /\ LightTexts[8] = "Buchung #3"
    /\ DarkTexts[9] = "Stellplatz P03" /\ LightTexts[9] = "Stellplatz P03"

IsSwatch(o) == o.op = "rounded_rectangle" /\ o.xy[2] = 330 /\ o.xy[4] = 370
IsDarkSwatch(o) == IsSwatch(o) /\ o.xy[1] < files["dark-mode.png"].size[1] \div 2
IsLightSwatch(o) == IsSwatch(o) /\ o.xy[1] >= files["dark-mode.png"].size[1] \div 2
DarkSwatches == SelectSeq(Ops("dark-mode.png"), IsDarkSwatch)
LightSwatches == SelectSeq(Ops("dark-mode.png"), IsLightSwatch)

\* C8 as stated: each channel of a light swatch's fill is c/2 + 128 for the
\* channel c of the dark swatch's fill, and is an 8-bit value.
C8_LightFromDarkFill ==
    Saved("dark-mode.png") =>
        \A j \in 1..4 : \A ch \in 1..3 :
            /\ LightSwatches[j].fill[ch] = DarkSwatches[j].fill[ch] \div 2 + 128
            /\ LightSwatches[j].fill[ch] \in 0..255

\* C8 amended: the two panels draw four swatches each, swatch j with the
\* same accent colour as outline; each channel of the light swatch's fill is
\* c/2 + 128 for the channel c of that accent colour (the dark swatch's fill
\* is c/6), and is an 8-bit value.
C8_LightFromAccent ==
    Saved("dark-mode.png") =>
        /\ Len(DarkSwatches) = 4
        /\ Len(LightSwatches) = 4
        /\ \A j \in 1..4 :
             /\ LightSwatches[j].outline = DarkSwatches[j].outline
             /\ \A ch \in 1..3 :
                  /\ LightSwatches[j].fill[ch] = DarkSwatches[j].outline[ch] \div 2 + 128
                  /\ DarkSwatches[j].fill[ch] = DarkSwatches[j].outline[ch] \div 6
                  /\ LightSwatches[j].fill[ch] \in 0..255

\* C8 witness: the saved split screen, whose first swatch is the green one.
C8_Witness ==
    /\ Saved("dark-mode.png")
    /\ DarkSwatches[1].outline = <<34, 197, 94>>
    /\ DarkSwatches[1].fill = <<5, 32, 15>>
    /\ LightSwatches[1].fill = <<145, 226, 175>>

IsCard(o) == o.op = "rounded_rectangle"
Cards == SelectSeq(Ops("welcome.png"), IsCard)
CardW == Cards[1].xy[3] - Cards[1].xy[1]
CardH == Cards[1].xy[4] - Cards[1].xy[2]
CardGap == Cards[2].xy[1] - Cards[1].xy[3]
RowStep == Cards[6].xy[2] - Cards[1].xy[2]

\* C9: the saved welcome screen holds ten cards of one size, card i in
\* column i mod 5 and row i div 5 of a grid with a positive gap, and the
\* grid's x origin is (width - 5*card_width - 4*gap) / 2, which leaves the
\* same margin left of the first column as right of the last.
C9_WelcomeGrid ==
    Saved("welcome.png") =>
        /\ Len(Cards) = 10
        /\ CardW > 0 /\ CardH > 0 /\ CardGap > 0 /\ RowStep >= CardH
        /\ \A i \in 0..9 :
             /\ Cards[i + 1].xy[1] = Cards[1].xy[1] + (i % 5) * (CardW + CardGap)
             /\ Cards[i + 1].xy[2] = Cards[1].xy[2] + (i \div 5) * RowStep
             /\ Cards[i + 1].xy[3] = Cards[i + 1].xy[1] + CardW
             /\ Cards[i + 1].xy[4] = Cards[i + 1].xy[2] + CardH
        /\ Cards[1].xy[1] = (files["welcome.png"].size[1] - 5 * CardW - 4 * CardGap) \div 2
        /\ Cards[1].xy[1] = files["welcome.png"].size[1] - Cards[5].xy[3]

\* C9 witness: the saved welcome screen, its first card at x = 51 and its
\* last card in the second row ending at x = 749.
C9_Witness ==
    /\ Saved("welcome.png")
    /\ Cards[1].xy = <<51, 160, 181, 230>>
    /\ Cards[10].xy = <<619, 242, 749, 312>>

----------------------------------------------------------------------------
(* Properties of the widgets *)

CallOps(c) == SubSeq(widget.ops, c.first, c.last)
IsNavLabel(o) == o.op = "text" /\ o.xy[2] = 18
IsEntry(o) == o.op = "text"
\* The filled accent box drawn behind the sidebar entry e.
Highlighted(ops, e) ==
    \E i \in 1..Len(ops) :
        /\ ops[i].op = "rounded_rectangle"
        /\ ops[i].fill = BLUE
        /\ ops[i].xy = <<8, e.xy[2] - 4, 192, e.xy[2] + 26>>

NavbarRule(c) ==
    LET row == SelectSeq(CallOps(c), IsNavLabel)
        accent == {i \in 1..Len(row) : row[i].fill = BLUE}
    IN /\ Texts(row) = <<"Dashboard", "Buchungen", "Profil", "Admin">>
       /\ \A i \in 1..Len(row) :
            /\ row[i].fill \in {BLUE, GRAY}
            /\ row[i].fill = BLUE <=> c.active = <<row[i].text>>
       /\ Cardinality(accent) <= 1
       /\ (c.active = None \/ \A i \in 1..Len(row) : c.active # <<row[i].text>>) => accent = {}

SidebarRule(c) ==
    LET ops == CallOps(c)
        row == SelectSeq(ops, IsEntry)
        accent == {i \in 1..Len(row) : Highlighted(ops, row[i])}
    IN /\ Texts(row) = <<"Dashboard", "Buchungen", "Fahrzeuge", "Homeoffice", "Profil", "Admin">>
       /\ \A i \in 1..Len(row) :
            /\ i \in accent <=> c.active = <<row[i].text>>
            /\ row[i].fill = IF i \in accent THEN WHITE ELSE GRAY
       /\ Cardinality({i \in 1..Len(ops) : ops[i].op = "rounded_rectangle"
                                           /\ ops[i].fill = BLUE}) = Cardinality(accent)
       /\ Cardinality(accent) <= 1
       /\ (c.active = None \/ \A i \in 1..Len(row) : c.active # <<row[i].text>>) => accent = {}

\* C10: whatever the active argument, the navbar draws in the accent colour
\* exactly the labels equal to it and the others muted, and the sidebar
\* highlights exactly the entries equal to it and draws the others as plain
\* muted text; at most one entry per widget is highlighted, and none when
\* the argument is None or is no label of the widget.
C10_ActiveItem ==
    \A k \in 1..Len(calls) :
        /\ calls[k].w = "navbar" => NavbarRule(calls[k])
        /\ calls[k].w = "sidebar" => SidebarRule(calls[k])

\* C10 witness: a navbar called with "Fahrzeuge", which only the sidebar
\* lists, followed by a sidebar called with it.
C10_Witness ==
    /\ Len(calls) = 2
    /\ calls[1].w = "navbar" /\ calls[1].active = <<"Fahrzeuge">>
    /\ calls[2].w = "sidebar" /\ calls[2].active = <<"Fahrzeuge">>
    /\ \A i \in calls[1].first..calls[1].last : widget.ops[i].fill # BLUE \/ widget.ops[i].op # "text"
    /\ \E i \in calls[2].first..calls[2].last :
         widget.ops[i].text = "Fahrzeuge" /\ widget.ops[i].fill = WHITE

----------------------------------------------------------------------------
(* Properties of the composers run as units of work *)

\* The directory the fixed sequential order of main leaves, started on fs.
RECURSIVE SequentialRun(_, _, _)
SequentialRun(fs, F, i) ==
    IF i > Len(Screens) THEN fs
    ELSE SequentialRun(Put(fs, FileName(Screens[i]), Composer(Screens[i], F)), F, i + 1)

\* The directory before the composers ran.
Before == StaleFiles

\* What the sequential order leaves, for each registry initialisation can bind.
Sequential == [F \in {Preferred, Fallback(NoFonts)} |-> SequentialRun(Before, F, 1)]

\* C11: the composers are independent: whatever the order of the composers
\* and the interleaving of their steps, every file written so far holds what
\* the fixed sequential order writes under that name, no other file is
\* touched, the font registry is not modified, and when all nine composers
\* have saved the directory equals the one the sequential order leaves.
C11_SameFilesAnyOrder ==
    LET seq == Sequential[fonts]
    IN /\ \A n \in ScreenNames :
            cpc[n] = "saved" => files[FileName(n)] = seq[FileName(n)]
       /\ \A f \in DOMAIN files :
            (\A n \in ScreenNames : cpc[n] = "saved" => f # FileName(n))
                => f \in DOMAIN Before /\ files[f] = Before[f]
       /\ DOMAIN files = DOMAIN Before \cup {FileName(n) : n \in {m \in ScreenNames : cpc[m] = "saved"}}
       /\ fonts \in {Preferred, Fallback(NoFonts)}
       /\ (\A n \in ScreenNames : cpc[n] = "saved") => files = seq

\* All nine composers saved, some of them begun before an earlier one of
\* main's order had saved, over a directory that held a stale welcome.png.
C11_Witness ==
    /\ \A n \in ScreenNames : cpc[n] = "saved"
    /\ overlap
    /\ files["welcome.png"] # StaleImg
    /\ files["old.png"] = StaleImg

----------------------------------------------------------------------------
(* Bounds of the shapes the composers draw *)

IsBox(o) == o.op \in {"rounded_rectangle", "rectangle", "ellipse"}

\* The bounds x0, y0, x1, y1 of a shape lie within a w by h canvas, in order.
Within(xy, w, h) ==
    /\ 0 <= xy[1] /\ xy[1] <= xy[3] /\ xy[3] <= w
    /\ 0 <= xy[2] /\ xy[2] <= xy[4] /\ xy[4] <= h

BoxesWithin(c) ==
    \A i \in 1..Len(c.ops) :
        IsBox(c.ops[i]) => Len(c.ops[i].xy) = 4 /\ Within(c.ops[i].xy, 800, 500)

\* C13: every rectangle, rounded rectangle and ellipse on a canvas a composer
\* saved (the widgets' shapes and the shapes placed by loops included) has
\* bounds with 0 <= x0 <= x1 <= 800 and 0 <= y0 <= y1 <= 500.
C13_ShapesWithinCanvas ==
    saved # <<>> => BoxesWithin(files[saved[Len(saved)]])

\* The last composer has saved, after the eight before it: every canvas was
\* the last one saved at some state of this run; the phone frame of
\* mobile.png and the last theme card of themes.png are on their canvases.
C13_Witness ==
    /\ Len(saved) = Len(Screens)
    /\ Pick(Ops("mobile.png"), "rounded_rectangle", <<280, 20, 520, 480>>) # {}
    /\ \E i \in 1..Len(Ops("themes.png")) :
          /\ IsBox(Ops("themes.png")[i])
          /\ Ops("themes.png")[i].xy[1] >= 60 + 4 * 145
          /\ Ops("themes.png")[i].xy[2] >= 300

----------------------------------------------------------------------------
(* The dashboard's stat cards against its occupancy grid *)

\* The values shown on the stat cards labelled label: the text 20 below it.
CardValues(ops, label) ==
    LET labels == {i \in 1..Len(ops) :
                     ops[i].op = "text" /\ ops[i].text = label /\ ops[i].xy[2] = 82}
    IN UNION {{ops[j].text : j \in Pick(ops, "text", <<ops[i].xy[1], 102>>)} : i \in labels}

\* The cells drawn inside the grid card (220, 158, 560, 440), by outline.
GridCells(ops) ==
    {i \in 1..Len(ops) :
        /\ ops[i].op = "rounded_rectangle"
        /\ 220 < ops[i].xy[1] /\ ops[i].xy[3] < 560
        /\ 158 < ops[i].xy[2] /\ ops[i].xy[4] < 440}
OccupiedCells(ops, cells) == {i \in cells : ops[i].outline = RED}
FreeCells(ops, cells) == {i \in cells : ops[i].outline = GREEN}

\* C15: on the saved dashboard the stat cards agree with the grid below them:
\* the total card shows the number of grid cells (24), the occupied card the
\* number of cells drawn occupied (18), the free card the number of cells
\* drawn free (6), and occupied plus free is the total.
C15_CardsAgreeWithGrid ==
    Saved("dashboard.png") =>
        LET ops == Ops("dashboard.png")
            cells == GridCells(ops)
            total == Cardinality(cells)
            occ == Cardinality(OccupiedCells(ops, cells))
            free == Cardinality(FreeCells(ops, cells))
        IN /\ CardValues(ops, "Stellplatze") = {Str(total)} /\ total = 24
           /\ CardValues(ops, "Belegt") = {Str(occ)} /\ occ = 18
           /\ CardValues(ops, "Frei") = {Str(free)} /\ free = 6
           /\ occ + free = total

\* The dashboard was saved with its three cards and with cells of both looks.
C15_Witness ==
    /\ Saved("dashboard.png")
    /\ CardValues(Ops("dashboard.png"), "Belegt") # {}
    /\ CardValues(Ops("dashboard.png"), "Stellplatze") # {}
    /\ CardValues(Ops("dashboard.png"), "Frei") # {}
    /\ OccupiedCells(Ops("dashboard.png"), GridCells(Ops("dashboard.png"))) # {}
    /\ FreeCells(Ops("dashboard.png"), GridCells(Ops("dashboard.png"))) # {}

----------------------------------------------------------------------------
(* Properties of a run of the capture script *)

\* The steps the script has gone through without an exception leaving a
\* take_ function: the whole program of the functions that returned and the
\* steps before the current one of the function that is running.
RECURSIVE StepsUpTo(_)
StepsUpTo(i) ==
    IF i > Len(Functions) THEN <<>>
    ELSE IF Functions[i] = bfn THEN SubSeq(Program(bfn), 1, bip - 1)
    ELSE Program(Functions[i]) \o StepsUpTo(i + 1)

\* log is a record of steps in which every top-level navigation and
\* screenshot was performed, in order, and every try block was performed up
\* to some point.
RECURSIVE Performed(_, _)
Performed(log, todo) ==
    IF todo = <<>> THEN log = <<>>
    ELSE LET st == Head(todo)
             all == Entries(st)
         IN IF st.k = "try"
            THEN \E n \in 0..Len(all) :
                    /\ n <= Len(log)
                    /\ SubSeq(log, 1, n) = SubSeq(all, 1, n)
                    /\ Performed(SubSeq(log, n + 1, Len(log)), Tail(todo))
            ELSE /\ Len(all) <= Len(log)
                 /\ SubSeq(log, 1, Len(all)) = all
                 /\ Performed(SubSeq(log, Len(all) + 1, Len(log)), Tail(todo))

\* C12: an element that is not located never aborts the run: the exception
\* that ends a run is never one of a login form or of a try block, and as
\* long as no other exception was raised every navigation and screenshot of
\* the steps gone through was performed, all of them when the run is done;
\* when the base URL does not answer the process exits with status 1 with
\* no browser started and no navigation or screenshot made.
C12_MissesSkippedUnreachableExits ==
    /\ cause \notin {"form", "try"}
    /\ (bfn = "aborted") => cause # "" /\ exitcode = 1
    /\ (cause = "" /\ bfn \notin {"import", "main"}) => Performed(blog, StepsUpTo(1))
    /\ (bfn = "done") =>
          /\ exitcode = 0
          /\ Performed(blog, take_desktop \o take_mobile \o take_tablet)
    /\ (bfn = "exited") <=> (cause = "urlopen")
    /\ (bfn = "exited") =>
          exitcode = 1 /\ launched = <<>> /\ live = 0 /\ blog = <<>>

\* A run that finished after elements were not located: the licence-plate
\* screenshot was skipped, the steps after it were made up to the last
\* screenshot of take_tablet.
C12_Witness ==
    /\ bfn = "done"
    /\ missed
    /\ "booking-plate.png" \notin Range(blog)
    /\ "bookings-list.png" \in Range(blog)
    /\ "mobile-dark.png" \in Range(blog)
    /\ blog[Len(blog)] = "tablet-dashboard.png"

\* C14: every take_ function starts one browser driver and quits it on every
\* way out: at most one driver is live at any point, each function started
\* at most one, and none is live once the run has ended or aborted.
C14_DriverAlwaysQuit ==
    /\ live <= 1
    /\ \A i, j \in 1..Len(launched) : launched[i] = launched[j] => i = j
    /\ bfn \in {"done", "aborted", "exited"} => live = 0

\* The part of C14 that holds: never more than one driver live, never two
\* drivers started by one function, none live after a run that is done.
C14_AtMostOneLive ==
    /\ live <= 1
    /\ \A i, j \in 1..Len(launched) : launched[i] = launched[j] => i = j
    /\ bfn \in {"done", "exited"} => live = 0

\* The process has ended with a traceback and the driver is still running.
C14_Leaked ==
    /\ bfn = "aborted"
    /\ cause = "resize"
    /\ live = 1

====
